---- MODULE Spec2Model ----
(***************************************************************************)
(* A model of FTPClient (src/ftp_client.py): the current-directory listing *)
(* cache, the listing parser, the file/directory classifier, the download  *)
(* history (in memory and in the history file) and the download loop.      *)
(*                                                                         *)
(* Text is modelled as a sequence of one-character strings, so that        *)
(* str.split, int(), ' '.join, os.path.join and os.path.splitext are       *)
(* computed and not assumed.  The local filesystem is taken to be reliable *)
(* apart from the history file being missing or holding foreign content.   *)
(***************************************************************************)
EXTENDS Integers, Sequences, FiniteSets, TLC

(***************************************************************************)
(* Bounds of the model.                                                    *)
(***************************************************************************)
\* public calls made on one client instance
MaxCalls == 4

(***************************************************************************)
(* Text helpers.                                                           *)
(***************************************************************************)
Digits == {"0", "1", "2", "3", "4", "5", "6", "7", "8", "9"}

DigitVal(c) ==
    CASE c = "0" -> 0 [] c = "1" -> 1 [] c = "2" -> 2 [] c = "3" -> 3
      [] c = "4" -> 4 [] c = "5" -> 5 [] c = "6" -> 6 [] c = "7" -> 7
      [] c = "8" -> 8 [] c = "9" -> 9

Last(s) == s[Len(s)]

\* str.rfind(c): the last 1-based index of character c in s, 0 when absent
RECURSIVE RFind(_, _)
RFind(s, c) ==
    IF s = <<>> THEN 0
    ELSE IF Last(s) = c THEN Len(s)
    ELSE RFind(SubSeq(s, 1, Len(s) - 1), c)

\* str.split(): the maximal runs of non-blank characters, in order
RECURSIVE SplitFrom(_, _, _)
SplitFrom(s, tok, acc) ==
    IF s = <<>>
    THEN IF tok = <<>> THEN acc ELSE Append(acc, tok)
    ELSE IF Head(s) = " "
         THEN SplitFrom(Tail(s), <<>>, IF tok = <<>> THEN acc ELSE Append(acc, tok))
         ELSE SplitFrom(Tail(s), Append(tok, Head(s)), acc)

Split(s) == SplitFrom(s, <<>>, <<>>)

\* ' '.join(tokens)
RECURSIVE JoinSpace(_)
JoinSpace(toks) ==
    IF toks = <<>> THEN <<>>
    ELSE IF Len(toks) = 1 THEN toks[1]
    ELSE toks[1] \o <<" ">> \o JoinSpace(Tail(toks))

\* int(token) accepts an optional sign followed by one or more digits
IsIntToken(t) ==
    LET body == IF t # <<>> /\ t[1] \in {"-", "+"} THEN Tail(t) ELSE t
    IN  body # <<>> /\ \A i \in 1..Len(body) : body[i] \in Digits

RECURSIVE DigitsValue(_)
DigitsValue(ds) ==
    IF ds = <<>> THEN 0
    ELSE 10 * DigitsValue(SubSeq(ds, 1, Len(ds) - 1)) + DigitVal(Last(ds))

IntOfToken(t) ==
    IF t[1] = "-" THEN 0 - DigitsValue(Tail(t))
    ELSE IF t[1] = "+" THEN DigitsValue(Tail(t))
    ELSE DigitsValue(t)

\* os.path.join(path, name) on a POSIX host
join_os_path(path, name) ==
    IF name # <<>> /\ name[1] = "/" THEN name
    ELSE IF path = <<>> \/ Last(path) = "/" THEN path \o name
    ELSE path \o <<"/">> \o name

\* os.path.splitext(p)[-1]: the text from the last dot of the last path
\* component, unless only dots precede it in that component
splitext(p) ==
    LET sepIndex == RFind(p, "/")
        dotIndex == RFind(p, ".")
    IN  IF dotIndex > sepIndex
           /\ \E i \in (sepIndex + 1)..(dotIndex - 1) : p[i] # "."
        THEN SubSeq(p, dotIndex, Len(p))
        ELSE <<>>

(***************************************************************************)
(* FTPFile and the records of the download history.                        *)
(***************************************************************************)
FTPFile(name, size, modified_date) ==
    [name |-> name, size |-> size, modified_date |-> modified_date]

\* dict(file_info._asdict()): a JSON object with exactly the three keys.
\* Field k tells the shape of a JSON element of the history: "rec" is an
\* object holding name (text), size (integer) and modified_date (text),
\* "nosize" an object without the key size, "badsize" an object whose size
\* is text, "nonobj" an element that is not an object.
AsDict(file_info) ==
    [k |-> "rec", name |-> file_info.name, size |-> file_info.size,
     modified_date |-> file_info.modified_date]

(***************************************************************************)
(* The FTP server (the transport collaborator).  A server entry is one row *)
(* of a directory; the server renders it as an `ls -l` line.  A row with   *)
(* short = TRUE is rendered without owner and group (fewer than 6 tokens). *)
(***************************************************************************)
SE(perm, size, date, name, short) ==
    [perm |-> perm, size |-> size, date |-> date, name |-> name, short |-> short]

RawLine(se) ==
    IF se.short
    THEN se.perm \o <<" ">> \o se.size \o <<" ">> \o se.name
    ELSE se.perm \o <<" ", "1", " ", "u", " ", " ", "g", " ">> \o se.size
         \o <<" ">> \o JoinSpace(se.date) \o <<" ">> \o se.name

NameAT == <<"a", ".", "t">>
NameCT == <<"c", ".", "t">>
NameDT == <<"d", ".", "t">>
NameS  == <<"s">>
NameB  == <<"b">>
DateM1 == << <<"M">>, <<"1">> >>

\* The remote trees the client is run against: the root directory and,
\* when hasSub, its subdirectory s.
ServerTrees ==
    << [root |-> << SE(<<"-">>, <<"5">>, DateM1, NameAT, FALSE),
                    SE(<<"d">>, <<"9">>, DateM1, NameS, FALSE),
                    SE(<<"-">>, <<"7">>, DateM1, NameCT, FALSE) >>,
        hasSub |-> TRUE,
        sub  |-> << SE(<<"-">>, <<"2">>, DateM1, NameDT, FALSE) >>],
       [root |-> << SE(<<"-">>, <<"5">>, DateM1, NameAT, FALSE),
                    SE(<<"-">>, <<"5">>, DateM1, NameAT, FALSE),
                    SE(<<"-">>, <<"1", "2">>, << >>, NameCT, FALSE),
                    SE(<<"d">>, <<"9">>, DateM1, NameS, FALSE) >>,
        hasSub |-> TRUE,
        sub  |-> << >>],
       [root |-> << SE(<<"d">>, <<"9">>, DateM1, NameS, FALSE) >>,
        hasSub |-> TRUE,
        sub  |-> << SE(<<"-">>, <<"6">>, DateM1, NameAT, FALSE),
                    SE(<<"-">>, <<"3">>, DateM1, NameB, FALSE) >>],
       [root |-> << SE(<<"-">>, <<"5">>, DateM1, NameAT, FALSE),
                    SE(<<"-">>, <<"x">>, DateM1, NameCT, FALSE),
                    SE(<<"d">>, <<"9">>, DateM1, NameS, FALSE) >>,
        hasSub |-> TRUE,
        sub  |-> << SE(<<"-">>, <<"4">>, DateM1, NameDT, TRUE) >>],
       [root |-> << SE(<<"-">>, <<"5">>, DateM1, NameAT, FALSE),
                    SE(<<"d">>, <<"9">>, DateM1, NameS, FALSE) >>,
        hasSub |-> TRUE,
        sub  |-> << SE(<<"-">>, <<"2">>, DateM1, NameDT, FALSE),
                    SE(<<"-">>, <<"x">>, DateM1, NameCT, FALSE) >>] >>

RemoteDirs == {"root", "sub"}

\* the paths the caller passes to get_files, get_directories and
\* download_files_in_directory, and to cwd
PathCwd == <<>>
PathS   == <<"s">>
PathUp  == <<".", ".">>
ListPaths == {PathCwd, PathS}
CwdPaths  == {PathS, PathUp}

(***************************************************************************)
(* The history file.  st is "missing" (no such file), "corrupt" (not       *)
(* parseable as JSON) or "json"; a JSON document is a list of elements or  *)
(* the empty object {}.                                                    *)
(***************************************************************************)
JList(items) == [ty |-> "list", items |-> items]
JEmptyObject == [ty |-> "dict", items |-> <<>>]

FileMissing == [st |-> "missing", doc |-> JList(<<>>)]
FileCorrupt == [st |-> "corrupt", doc |-> JList(<<>>)]
FileJson(doc) == [st |-> "json", doc |-> doc]

JRec(k, name, size, date) ==
    [k |-> k, name |-> name, size |-> size, modified_date |-> date]

TextM1 == <<"M", " ", "1">>

\* the contents the history file may have when the client is constructed
InitialHistoryFiles ==
    { FileMissing, FileCorrupt,
      FileJson(JEmptyObject),
      FileJson(JList(<<>>)),
      FileJson(JList(<< JRec("rec", NameAT, 5, TextM1) >>)),
      FileJson(JList(<< JRec("rec", NameAT, 6, TextM1) >>)),
      FileJson(JList(<< JRec("rec", NameAT, 5, <<"M", " ", "2">>),
                        JRec("rec", NameDT, 2, TextM1) >>)),
      FileJson(JList(<< JRec("nosize", NameAT, 0, TextM1) >>)),
      FileJson(JList(<< JRec("badsize", NameAT, 0, TextM1) >>)),
      FileJson(JList(<< JRec("nonobj", <<>>, 0, <<>>) >>)) }

(***************************************************************************)
(* The client.                                                             *)
(***************************************************************************)
VARIABLES
    srv,                    \* which of ServerTrees the server holds
    rcwd,                   \* the server's current directory of the session
    history_filename,       \* "None" or the name of the history file
    file_checking_function, \* "None" or the name of the user's predicate
    request_check_is_dir,   \* self.request_check_is_dir
    files,                  \* self.__files
    directories,            \* self.__directories
    downloaded_files,       \* self.__downloaded_files
    history_file,           \* the content of the history file
    pc,                     \* where the caller's thread is
    pending,                \* what the lazy filter has not yet looked at
    cur,                    \* the argument of the running __download
    calls,                  \* public calls made so far
    call,                   \* the last public call, its outcome and result
    nLoad,                  \* times the history file was opened for loading
    retrLog,                \* the RETR requests issued, with their outcome
    fetched,                \* the cwd listing was stored since the last cwd
    session,                \* "open", or "closed" once the client closed it
    held,                   \* the list the caller got from its latest get
    sizeRequests            \* SIZE requests issued by the last public call

vars == << srv, rcwd, history_filename, file_checking_function,
           request_check_is_dir, files, directories, downloaded_files,
           history_file, pc, pending, cur, calls, call, nLoad, retrLog,
           fetched, session, held, sizeRequests >>

config == << srv, history_filename, file_checking_function,
             request_check_is_dir >>

NoEntry == FTPFile(<<>>, 0, <<>>)

Call(op, path, outcome, listed, ret) ==
    [op |-> op, path |-> path, outcome |-> outcome, listed |-> listed,
     ret |-> ret]

\* A list object in the caller's hands: val is what it holds now, snap what
\* it held when it was returned, alias whether it is the very object bound
\* to self.__files ("files") or self.__directories ("directories"), or an
\* object of the caller's own ("own").
Held(val, alias) == [val |-> val, snap |-> val, alias |-> alias]

Init ==
    /\ srv \in 1..Len(ServerTrees)
    /\ rcwd = "root"
    /\ history_filename \in {"None", "history.json"}
    /\ file_checking_function \in {"None", "size_below_7"}
    /\ request_check_is_dir \in BOOLEAN
    /\ files = <<>>
    /\ directories = <<>>
    /\ downloaded_files = JList(<<>>)
    /\ history_file \in IF history_filename = "None" THEN {FileMissing}
                        ELSE InitialHistoryFiles
    /\ pc = "idle"
    /\ pending = <<>>
    /\ cur = NoEntry
    /\ calls = 0
    /\ call = Call("__init__", <<>>, "ok", 0, <<>>)
    /\ nLoad = 0
    /\ retrLog = <<>>
    /\ fetched = FALSE
    /\ session = "open"
    /\ held = Held(<<>>, "own")
    /\ sizeRequests = 0

(***************************************************************************)
(* What the server answers, for remote tree v and current directory d.     *)
(***************************************************************************)
\* the remote directory a path names, "none" when there is no such directory
ResolveIn(v, d, path) ==
    IF path = PathCwd THEN d
    ELSE IF path = PathUp THEN "root"
    ELSE IF path = PathS /\ d = "root" /\ ServerTrees[v].hasSub THEN "sub"
    ELSE "none"

Rows(v, dir) == IF dir = "root" THEN ServerTrees[v].root ELSE ServerTrees[v].sub

\* SIZE name: answered for a plain file only
ServerSizeFails(v, d, name) ==
    LET sepIndex == RFind(name, "/")
        dir  == ResolveIn(v, d, SubSeq(name, 1, sepIndex - 1))
        leaf == SubSeq(name, sepIndex + 1, Len(name))
    IN  \/ dir = "none"
        \/ ~ \E i \in 1..Len(Rows(v, dir)) :
               Rows(v, dir)[i].name = leaf /\ Rows(v, dir)[i].perm[1] = "-"

\* what retrlines('LIST path') hands to the callback, line by line
RawListing(v, dir) == [i \in 1..Len(Rows(v, dir)) |-> RawLine(Rows(v, dir)[i])]

(***************************************************************************)
(* Listing: parse, compose the path, classify.                             *)
(***************************************************************************)
\* one line of __split_file_infos_from_strings: the unpacking needs at
\* least 6 tokens and int() needs an integer 5th token, else it raises
LineParses(line) ==
    LET toks == Split(line)
    IN  Len(toks) >= 6 /\ IsIntToken(toks[5])

ParseLine(line) ==
    LET toks == Split(line)
    IN  FTPFile(toks[Len(toks)], IntOfToken(toks[5]),
                JoinSpace(SubSeq(toks, 6, Len(toks) - 1)))

\* a plausible bug (or the other policy): a malformed line is skipped
split_file_infos_skipping_bad_lines(strings) ==
    [raised |-> FALSE,
     infos  |-> [i \in 1..Len(SelectSeq(strings, LineParses)) |->
                    ParseLine(SelectSeq(strings, LineParses)[i])]]

split_file_infos_from_strings(strings) ==
    [raised |-> \E i \in 1..Len(strings) : ~LineParses(strings[i]),
     infos  |-> [i \in 1..Len(strings) |->
                    IF LineParses(strings[i]) THEN ParseLine(strings[i])
                    ELSE NoEntry]]

update_file_info_name_with_path(file_info, path) ==
    FTPFile(join_os_path(path, file_info.name), file_info.size,
            file_info.modified_date)

\* __get_file_infos: one LIST request; raised when the server rejects the
\* path or a line does not parse
get_file_infos(v, d, path) ==
    IF ResolveIn(v, d, path) = "none" THEN [raised |-> TRUE, infos |-> <<>>]
    ELSE LET parsed ==
                 split_file_infos_from_strings(RawListing(v, ResolveIn(v, d, path)))
         IN  IF parsed.raised THEN [raised |-> TRUE, infos |-> <<>>]
             ELSE [raised |-> FALSE,
                   infos  |-> [i \in 1..Len(parsed.infos) |->
                       update_file_info_name_with_path(parsed.infos[i], path)]]

\* a plausible bug: the SIZE request is sent whatever the setting
is_directory_always_probing(v, d, probe, filename) ==
    LET extension == splitext(filename)
        have_filesize == ~ServerSizeFails(v, d, filename)
    IN  extension = <<>> /\ have_filesize

\* __is_directory, with probe = self.request_check_is_dir
is_directory(v, d, probe, filename) ==
    LET extension == splitext(filename)
        have_filesize == IF probe THEN ~ServerSizeFails(v, d, filename)
                         ELSE TRUE
    IN  extension = <<>> /\ have_filesize

RECURSIVE SelectSeqBy(_, _, _, _, _)
SelectSeqBy(v, d, probe, s, wantDir) ==
    IF s = <<>> THEN <<>>
    ELSE IF is_directory(v, d, probe, Head(s).name) = wantDir
         THEN <<Head(s)>> \o SelectSeqBy(v, d, probe, Tail(s), wantDir)
         ELSE SelectSeqBy(v, d, probe, Tail(s), wantDir)

split_files_and_directories(v, d, probe, files_and_directories) ==
    [files       |-> SelectSeqBy(v, d, probe, files_and_directories, FALSE),
     directories |-> SelectSeqBy(v, d, probe, files_and_directories, TRUE)]

\* __get_file_infos(path) followed by __split_files_and_directories, for
\* every remote tree, current directory, path and probe setting
FreshListings ==
    [v \in 1..Len(ServerTrees), d \in RemoteDirs, path \in ListPaths,
     probe \in BOOLEAN |->
        [raised |-> get_file_infos(v, d, path).raised,
         lists  |-> split_files_and_directories(
                        v, d, probe, get_file_infos(v, d, path).infos)]]

Resolve(path) == ResolveIn(srv, rcwd, path)

\* one LIST request of this session, parsed and classified
FreshListing(path) == FreshListings[srv, rcwd, path, request_check_is_dir]

\* a plausible bug: the cache answers whatever the path
FilesCachedAnyPath(path) == files # <<>>

\* whether get_files(path) / get_directories(path) finds its list cached
FilesCached(path) == path = PathCwd /\ files # <<>>
DirectoriesCached(path) == path = PathCwd /\ directories # <<>>

\* The outcome of get_files(path) or get_directories(path), given whether
\* the cache answers it: the lists the client holds afterwards (path ''
\* goes through __update_files_and_directories_in_cwd), the lists the call
\* chooses its result from, the LIST requests issued.
Listing(path, cached) ==
    IF cached
    THEN [raised |-> FALSE, listed |-> 0, files |-> files,
          directories |-> directories, fetched |-> fetched,
          lists |-> [files |-> files, directories |-> directories]]
    ELSE IF path = PathCwd /\ ~FreshListing(path).raised
    THEN [raised |-> FALSE, listed |-> 1,
          files |-> FreshListing(path).lists.files,
          directories |-> FreshListing(path).lists.directories,
          fetched |-> TRUE, lists |-> FreshListing(path).lists]
    ELSE [raised |-> FreshListing(path).raised, listed |-> 1, files |-> files,
          directories |-> directories, fetched |-> fetched,
          lists |-> FreshListing(path).lists]

get_files_result(path) == Listing(path, FilesCached(path))
get_directories_result(path) == Listing(path, DirectoriesCached(path))

\* the SIZE requests of one get_files(path) or get_directories(path): one
\* per listed entry when a listing was fetched and parsed and
\* self.request_check_is_dir is set, none otherwise
size_requests(path, cached) ==
    IF cached \/ FreshListing(path).raised \/ ~request_check_is_dir THEN 0
    ELSE Len(FreshListing(path).lists.files)
         + Len(FreshListing(path).lists.directories)

\* the caller's list after the client rebound or cleared its own lists
held_after_rebind == [held EXCEPT !.alias = "own"]
held_after_clear ==
    IF held.alias = "own" THEN held ELSE [held EXCEPT !.val = <<>>]

ledgerVars == << downloaded_files, history_file, nLoad, retrLog >>
loopVars == << pc, pending, cur >>

get_files(path) ==
    /\ pc = "idle" /\ calls < MaxCalls /\ session = "open"
    /\ \E r \in {get_files_result(path)} :
           /\ files' = r.files
           /\ directories' = r.directories
           /\ fetched' = r.fetched
           /\ call' = Call("get_files", path,
                           IF r.raised THEN "raised" ELSE "ok", r.listed,
                           IF r.raised THEN <<>> ELSE r.lists.files)
           /\ held' = IF r.raised THEN held
                      ELSE Held(r.lists.files,
                                IF path = PathCwd THEN "files" ELSE "own")
    /\ sizeRequests' = size_requests(path, FilesCached(path))
    /\ calls' = calls + 1
    /\ UNCHANGED << config, session, rcwd, ledgerVars, loopVars >>

get_directories(path) ==
    /\ pc = "idle" /\ calls < MaxCalls /\ session = "open"
    /\ \E r \in {get_directories_result(path)} :
           /\ files' = r.files
           /\ directories' = r.directories
           /\ fetched' = r.fetched
           /\ call' = Call("get_directories", path,
                           IF r.raised THEN "raised" ELSE "ok", r.listed,
                           IF r.raised THEN <<>> ELSE r.lists.directories)
           /\ held' = IF r.raised THEN held
                      ELSE Held(r.lists.directories,
                                IF path = PathCwd THEN "directories" ELSE "own")
    /\ sizeRequests' = size_requests(path, DirectoriesCached(path))
    /\ calls' = calls + 1
    /\ UNCHANGED << config, session, rcwd, ledgerVars, loopVars >>

\* a plausible bug: the directory changes and the file list is kept
cwd_keeping_files(path) ==
    /\ pc = "idle" /\ calls < MaxCalls /\ session = "open"
    /\ IF Resolve(path) = "none"
       THEN /\ call' = Call("cwd", path, "raised", 0, <<>>)
            /\ UNCHANGED << rcwd, files, directories, fetched, held >>
       ELSE /\ rcwd' = Resolve(path)
            /\ directories' = <<>>
            /\ held' = IF held.alias = "directories" THEN held_after_clear
                       ELSE held
            /\ call' = Call("cwd", path, "ok", 0, <<>>)
            /\ UNCHANGED << files, fetched >>
    /\ calls' = calls + 1
    /\ sizeRequests' = 0
    /\ UNCHANGED << config, session, downloaded_files, history_file, nLoad, retrLog,
                    pc, pending, cur >>

\* cwd: the server rejects a path that names no directory, and the lists
\* are cleared only after the server accepted
cwd(path) ==
    /\ pc = "idle" /\ calls < MaxCalls /\ session = "open"
    /\ IF Resolve(path) = "none"
       THEN /\ call' = Call("cwd", path, "raised", 0, <<>>)
            /\ UNCHANGED << rcwd, files, directories, fetched, held >>
       ELSE /\ rcwd' = Resolve(path)
            /\ files' = <<>>
            /\ directories' = <<>>
            /\ fetched' = FALSE
            /\ held' = held_after_clear
            /\ call' = Call("cwd", path, "ok", 0, <<>>)
    /\ calls' = calls + 1
    /\ sizeRequests' = 0
    /\ UNCHANGED << config, session, ledgerVars, loopVars >>

(***************************************************************************)
(* The download history.                                                   *)
(***************************************************************************)
\* __is_json_of_downloaded_file_info_in_correct_format, element by
\* element: "ok", "bad" (returns False) or "raise" (.get on a non-object)
RECURSIVE FormatOfItems(_)
FormatOfItems(items) ==
    IF items = <<>> THEN "ok"
    ELSE IF Head(items).k = "nonobj" THEN "raise"
    ELSE IF Head(items).k = "badsize" THEN "bad"
    ELSE FormatOfItems(Tail(items))

is_json_of_downloaded_file_info_in_correct_format(json_data) ==
    FormatOfItems(json_data.items)

\* a plausible bug: an unparseable history file is an error for the caller
get_previously_downloaded_files_strict ==
    IF history_filename = "None"
    THEN [raised |-> TRUE, read |-> 0, downloaded_files |-> downloaded_files]
    ELSE IF history_file.st # "json"
    THEN [raised |-> history_file.st = "corrupt", read |-> 1,
          downloaded_files |-> downloaded_files]
    ELSE LET format ==
                 is_json_of_downloaded_file_info_in_correct_format(history_file.doc)
         IN  [raised |-> format = "raise", read |-> 1,
              downloaded_files |-> IF format = "ok" THEN history_file.doc
                                   ELSE downloaded_files]

\* __get_previously_downloaded_files: the in-memory history afterwards and
\* whether an exception leaves the method
get_previously_downloaded_files ==
    IF history_filename = "None"
    THEN [raised |-> TRUE, read |-> 0, downloaded_files |-> downloaded_files]
    ELSE IF history_file.st # "json"
    THEN [raised |-> FALSE, read |-> 1, downloaded_files |-> downloaded_files]
    ELSE LET format ==
                 is_json_of_downloaded_file_info_in_correct_format(history_file.doc)
         IN  [raised |-> format = "raise", read |-> 1,
              downloaded_files |-> IF format = "ok" THEN history_file.doc
                                   ELSE downloaded_files]

\* a plausible bug (or a different design): the load runs once per client
NeedsLoadOnce == nLoad = 0

\* the guard of the load in download_files_in_directory
NeedsLoad == Len(downloaded_files.items) < 1

\* a plausible bug: the history is searched by name alone
havent_been_downloaded_by_name(file_info) ==
    \A i \in 1..Len(downloaded_files.items) :
        file_info.name # downloaded_files.items[i].name

\* __havent_been_downloaded
havent_been_downloaded(file_info) ==
    \A i \in 1..Len(downloaded_files.items) :
        AsDict(file_info) # downloaded_files.items[i]

\* the user's file_checking_function
PassesCheck(file_info) ==
    file_checking_function = "None" \/ file_info.size < 7

\* next() of the two chained lazy filters: the entries not yet looked at,
\* from the first one that passes both filters on
RECURSIVE FilterNext(_)
FilterNext(entries) ==
    IF entries = <<>> THEN <<>>
    ELSE IF PassesCheck(Head(entries)) /\ havent_been_downloaded(Head(entries))
         THEN entries
         ELSE FilterNext(Tail(entries))

\* a plausible bug: every append starts the file over
AppendedFileItemsNewStore(new_json_data) == << new_json_data >>

\* the list __append_json_to_list_in_file writes to the file
AppendedFileItems(new_json_data) ==
    IF history_file.st = "json" /\ Len(history_file.doc.items) > 0
    THEN Append(history_file.doc.items, new_json_data)
    ELSE << new_json_data >>

(***************************************************************************)
(* download_files_in_directory, step by step: the call (load, listing,     *)
(* filters), each next() of the filter, each RETR, each history append.    *)
(***************************************************************************)
download_files_in_directory(path) ==
    /\ pc = "idle" /\ calls < MaxCalls /\ session = "open"
    /\ calls' = calls + 1
    /\ \E load \in {IF NeedsLoad THEN get_previously_downloaded_files
                      ELSE [raised |-> FALSE, read |-> 0,
                            downloaded_files |-> downloaded_files]},
          r \in {get_files_result(path)} :
           /\ nLoad' = nLoad + load.read
           /\ downloaded_files' = load.downloaded_files
           /\ IF load.raised
              THEN /\ call' = Call("download", path, "raised", 0, <<>>)
                   /\ sizeRequests' = 0
                   /\ UNCHANGED << files, directories, fetched, loopVars,
                                   held >>
              ELSE /\ files' = r.files
                   /\ sizeRequests' = size_requests(path, FilesCached(path))
                   /\ held' = IF path = PathCwd /\ r.listed = 1 /\ ~r.raised
                              THEN held_after_rebind ELSE held
                   /\ directories' = r.directories
                   /\ fetched' = r.fetched
                   /\ IF r.raised
                      THEN /\ call' = Call("download", path, "raised",
                                           r.listed, <<>>)
                           /\ UNCHANGED loopVars
                      ELSE /\ call' = Call("download", path, "running",
                                           r.listed, <<>>)
                           /\ pc' = "iterating"
                           /\ pending' = r.lists.files
                           /\ cur' = NoEntry
    /\ UNCHANGED << config, session, rcwd, history_file, retrLog >>

\* a plausible bug: the loop takes the surviving entries from the far end
DownloadNext_from_the_end ==
    /\ pc = "iterating"
    /\ \E rest \in {FilterNext(pending)} :
           IF rest = <<>>
           THEN /\ pc' = "idle"
                /\ pending' = <<>>
                /\ cur' = NoEntry
                /\ call' = [call EXCEPT !.outcome = "ok"]
           ELSE /\ pc' = "downloading"
                /\ pending' = SubSeq(rest, 1, Len(rest) - 1)
                /\ cur' = Last(rest)
                /\ UNCHANGED call
    /\ UNCHANGED << config, session, held, sizeRequests, rcwd, files,
                    directories, fetched, calls, ledgerVars >>

\* the for loop asks the filter for the next entry
DownloadNext ==
    /\ pc = "iterating"
    /\ \E rest \in {FilterNext(pending)} :
           IF rest = <<>>
           THEN /\ pc' = "idle"
                /\ pending' = <<>>
                /\ cur' = NoEntry
                /\ call' = [call EXCEPT !.outcome = "ok"]
           ELSE /\ pc' = "downloading"
                /\ pending' = Tail(rest)
                /\ cur' = Head(rest)
                /\ UNCHANGED call
    /\ UNCHANGED << config, session, held, sizeRequests, rcwd, files,
                    directories, fetched, calls,
                    ledgerVars >>

\* a plausible bug: a failed transfer is logged and the loop goes on
Retr_skip_and_continue(ok) ==
    /\ pc = "downloading"
    /\ retrLog' = Append(retrLog, [file |-> cur, ok |-> ok])
    /\ pc' = IF ok /\ history_filename # "None" THEN "recording"
             ELSE "iterating"
    /\ UNCHANGED << config, session, held, sizeRequests, rcwd, files,
                    directories, fetched, calls, call,
                    downloaded_files, history_file, nLoad, pending, cur >>

\* __download up to the end of its try block: the transfer succeeds, or it
\* fails and the process exits
Retr(ok) ==
    /\ pc = "downloading"
    /\ retrLog' = Append(retrLog, [file |-> cur, ok |-> ok])
    /\ IF ok
       THEN /\ pc' = IF history_filename # "None" THEN "recording"
                     ELSE "iterating"
            /\ UNCHANGED call
       ELSE /\ pc' = "exited"
            /\ call' = [call EXCEPT !.outcome = "exit"]
    /\ UNCHANGED << config, session, held, sizeRequests, rcwd, files,
                    directories, fetched, calls,
                    downloaded_files, history_file, nLoad, pending, cur >>

\* a plausible bug: the file is rewritten but the record is not appended to
\* the in-memory history
append_json_to_file_only ==
    /\ pc = "recording"
    /\ history_file' = FileJson(JList(AppendedFileItems(AsDict(cur))))
    /\ pc' = "iterating"
    /\ UNCHANGED << config, session, held, sizeRequests, rcwd, files,
                    directories, fetched, calls, cur,
                    nLoad, retrLog, call, pending, downloaded_files >>

\* __append_json_to_list_in_file: the file is rewritten, then the record is
\* appended in memory, which raises when the loaded history is not a list
append_json_to_list_in_file ==
    /\ pc = "recording"
    /\ history_file' = FileJson(JList(AppendedFileItems(AsDict(cur))))
    /\ IF downloaded_files.ty = "list"
       THEN /\ downloaded_files' =
                   JList(Append(downloaded_files.items, AsDict(cur)))
            /\ pc' = "iterating"
            /\ UNCHANGED << call, pending >>
       ELSE /\ pc' = "idle"
            /\ pending' = <<>>
            /\ call' = [call EXCEPT !.outcome = "raised"]
            /\ UNCHANGED downloaded_files
    /\ UNCHANGED << config, session, held, sizeRequests, rcwd, files,
                    directories, fetched, calls, cur,
                    nLoad, retrLog >>

(***************************************************************************)
(* The session: login and close.  The caller makes no call on a client it  *)
(* has closed.                                                             *)
(***************************************************************************)
\* close: QUIT, and a forced close of the socket when QUIT fails
close(quit_ok) ==
    /\ pc = "idle" /\ calls < MaxCalls /\ session = "open"
    /\ session' = "closed"
    /\ call' = Call("close", <<>>, "ok", 0, <<>>)
    /\ calls' = calls + 1
    /\ sizeRequests' = 0
    /\ UNCHANGED << config, held, rcwd, files, directories, fetched,
                    ledgerVars, loopVars >>

\* login: when the server rejects the credentials the except branch first
\* formats its log message from self.hostname, an attribute the class never
\* sets, so AttributeError leaves the method before self.close() and
\* sys.exit() are reached
login(accepted) ==
    /\ pc = "idle" /\ calls < MaxCalls /\ session = "open"
    /\ call' = Call("login", <<>>, IF accepted THEN "ok" ELSE "raised", 0, <<>>)
    /\ calls' = calls + 1
    /\ sizeRequests' = 0
    /\ UNCHANGED << config, session, held, rcwd, files, directories, fetched,
                    ledgerVars, loopVars >>

\* a new process constructs a client with the same parameters, over the
\* same server and the same history file
NewClient ==
    /\ pc \in {"idle", "exited"} /\ calls > 0
    /\ rcwd' = "root"
    /\ files' = <<>>
    /\ directories' = <<>>
    /\ downloaded_files' = JList(<<>>)
    /\ pc' = "idle"
    /\ pending' = <<>>
    /\ cur' = NoEntry
    /\ call' = Call("__init__", <<>>, "ok", 0, <<>>)
    /\ fetched' = FALSE
    /\ session' = "open"
    /\ held' = Held(<<>>, "own")
    /\ sizeRequests' = 0
    /\ UNCHANGED << config, history_file, calls, nLoad, retrLog >>

Next ==
    \/ \E path \in ListPaths : get_files(path)
    \/ \E path \in ListPaths : get_directories(path)
    \/ \E path \in CwdPaths : cwd(path)
    \/ \E path \in ListPaths : download_files_in_directory(path)
    \/ DownloadNext
    \/ \E ok \in BOOLEAN : Retr(ok)
    \/ append_json_to_list_in_file
    \/ \E accepted \in BOOLEAN : login(accepted)
    \/ \E quit_ok \in BOOLEAN : close(quit_ok)

Spec == Init /\ [][Next]_vars

\* the same, with the process ended and started again any number of times
NextWithRestart == Next \/ NewClient

SpecRestart == Init /\ [][NextWithRestart]_vars

(***************************************************************************)
(* Vocabulary of the properties.                                           *)
(***************************************************************************)
HistoryConfigured == history_filename # "None"

\* the records the history file holds (none when missing or unparseable)
FileItems(f) == IF f.st = "json" THEN f.doc.items ELSE <<>>

\* a record equal to the entry on name, size and modified_date
SameThreeFields(rec, file_info) ==
    /\ rec.k = "rec"
    /\ rec.name = file_info.name
    /\ rec.size = file_info.size
    /\ rec.modified_date = file_info.modified_date

InLedger(file_info) ==
    \E i \in 1..Len(downloaded_files.items) :
        SameThreeFields(downloaded_files.items[i], file_info)

\* this step is a public call of op with the given path
IsCall(op, path) ==
    calls' = calls + 1 /\ call'.op = op /\ call'.path = path

\* this step issues a RETR request
IssuesRetr == Len(retrLog') = Len(retrLog) + 1

\* the entries the filter passed over in a step of the download loop
PassedOver ==
    IF pc' = "downloading"
    THEN SubSeq(pending, 1, Len(pending) - Len(pending') - 1)
    ELSE pending

(***************************************************************************)
(* C1.  With a history file configured, an entry the download loop reaches *)
(* and the user predicate accepts is transferred if and only if no record  *)
(* of the in-memory history equals it on name, size and modified_date: the *)
(* filter passes over exactly the entries the predicate rejects or the     *)
(* history holds, the entry it yields is the one a RETR is issued for, and *)
(* no RETR is issued for anything else.                                    *)
(***************************************************************************)
C1_TransferredIffNotInLedger ==
    [][ HistoryConfigured =>
        /\ pc = "iterating" =>
             /\ \A i \in 1..Len(PassedOver) :
                    ~PassesCheck(PassedOver[i]) \/ InLedger(PassedOver[i])
             /\ pc' = "downloading" =>
                    /\ cur' = pending[Len(PassedOver) + 1]
                    /\ PassesCheck(cur') /\ ~InLedger(cur')
             /\ ~IssuesRetr
        /\ pc = "downloading" =>
             /\ IssuesRetr
             /\ retrLog'[Len(retrLog')].file = cur
        /\ IssuesRetr => pc = "downloading" ]_vars

\* a file is about to be transferred although the history holds a record
\* with its name (whose size or date differs)
C1_Witness ==
    /\ HistoryConfigured
    /\ pc = "downloading"
    /\ \E i \in 1..Len(downloaded_files.items) :
          /\ downloaded_files.items[i].k = "rec"
          /\ downloaded_files.items[i].name = cur.name
          /\ ~SameThreeFields(downloaded_files.items[i], cur)

(***************************************************************************)
(* C2.  With a history file configured, no RETR is issued for an entry     *)
(* (name, size, modified_date) after a RETR for the same entry succeeded.  *)
(***************************************************************************)
C2_NeverTransferredAgain ==
    HistoryConfigured =>
        \A i \in 1..Len(retrLog) : \A j \in (i + 1)..Len(retrLog) :
            retrLog[i].ok => retrLog[j].file # retrLog[i].file

\* the loop is about to look at an entry that was transferred before
C2_Witness ==
    /\ HistoryConfigured
    /\ pc = "iterating"
    /\ pending # <<>>
    /\ \E i \in 1..Len(retrLog) :
          retrLog[i].ok /\ retrLog[i].file = Head(pending)

(***************************************************************************)
(* C3.  A failed transfer ends the invocation (and the process): the step  *)
(* of the failed RETR leaves the history in memory and in the file as they *)
(* were, so the failed entry gets no record and earlier records stay, and  *)
(* nothing happens afterwards, so no later entry is transferred.           *)
(***************************************************************************)
C3_FailFast ==
    [][ /\ (IssuesRetr /\ ~retrLog'[Len(retrLog')].ok) =>
              /\ pc' = "exited"
              /\ downloaded_files' = downloaded_files
              /\ history_file' = history_file
        /\ pc = "exited" =>
              /\ pc' = "exited"
              /\ retrLog' = retrLog
              /\ downloaded_files' = downloaded_files
              /\ history_file' = history_file ]_vars

\* the second transfer of an invocation failed with an entry still to come
\* and the record of the first transfer in memory and in the file
C3_Witness ==
    /\ pc = "exited"
    /\ Len(retrLog) = 2 /\ retrLog[1].ok /\ ~retrLog[2].ok
    /\ FilterNext(pending) # <<>>
    /\ InLedger(retrLog[1].file)
    /\ ~InLedger(retrLog[2].file)
    /\ \E i \in 1..Len(FileItems(history_file)) :
          SameThreeFields(FileItems(history_file)[i], retrLog[1].file)

(***************************************************************************)
(* C4.  With a history file configured, a successful RETR is followed by   *)
(* the append of exactly one record equal to the entry, in memory and in   *)
(* the file, and the file is written in no other step: the step of the     *)
(* successful RETR changes neither, and the append that follows extends    *)
(* both by one record equal to the entry.                                  *)
(***************************************************************************)
ExtendedBy(before, after, file_info) ==
    /\ Len(after) = Len(before) + 1
    /\ SubSeq(after, 1, Len(before)) = before
    /\ SameThreeFields(after[Len(after)], file_info)

C4_OneRecordPerTransfer ==
    [][ HistoryConfigured =>
        /\ (IssuesRetr /\ retrLog'[Len(retrLog')].ok) =>
              /\ pc' = "recording" /\ cur' = cur
              /\ downloaded_files' = downloaded_files
              /\ history_file' = history_file
        /\ pc = "recording" =>
              /\ ExtendedBy(downloaded_files.items, downloaded_files'.items, cur)
              /\ ExtendedBy(FileItems(history_file), FileItems(history_file'), cur)
        /\ history_file' # history_file => pc = "recording" ]_vars

(***************************************************************************)
(* C5.  With no history file configured, download_files_in_directory       *)
(* transfers every listed file the user predicate accepts and neither      *)
(* reads nor writes a history file: when the call is over and the listing  *)
(* of its path was available, it has returned normally and every such file *)
(* has been transferred.                                                   *)
(***************************************************************************)
C5_DownloadsWithoutHistory ==
    ( /\ ~HistoryConfigured
      /\ call.op = "download" /\ pc = "idle"
      /\ ~FreshListing(call.path).raised )
    => /\ call.outcome = "ok"
       /\ nLoad = 0 /\ history_file = FileMissing
       /\ \A i \in 1..Len(FreshListing(call.path).lists.files) :
             PassesCheck(FreshListing(call.path).lists.files[i]) =>
                \E j \in 1..Len(retrLog) :
                   /\ retrLog[j].ok
                   /\ retrLog[j].file = FreshListing(call.path).lists.files[i]

(***************************************************************************)
(* C6.  Once the listing of the current directory has been fetched and no  *)
(* cwd happened since, get_files('') and get_directories('') issue no LIST *)
(* request and return the list the client holds.                           *)
(***************************************************************************)
IsGetOfCwd ==
    IsCall("get_files", PathCwd) \/ IsCall("get_directories", PathCwd)

C6_CachedAfterFetch ==
    [][ (fetched /\ IsGetOfCwd) =>
          /\ call'.listed = 0
          /\ call'.outcome = "ok"
          /\ call'.ret = IF call'.op = "get_files" THEN files
                         ELSE directories ]_vars

(***************************************************************************)
(* C7.  A successful cwd leaves both cached lists empty, and the           *)
(* get_files('') or get_directories('') that follows it issues one LIST    *)
(* request and returns only entries the server holds in the new current    *)
(* directory.                                                              *)
(***************************************************************************)
\* the entry is a row of remote directory dir, listed under path
IsRowOf(file_info, dir, path) ==
    \E j \in 1..Len(Rows(srv, dir)) :
        /\ file_info.name = join_os_path(path, Rows(srv, dir)[j].name)
        /\ file_info.size = IntOfToken(Rows(srv, dir)[j].size)
        /\ file_info.modified_date = JoinSpace(Rows(srv, dir)[j].date)

C7_CwdClearsCache ==
    [][ /\ (calls' = calls + 1 /\ call'.op = "cwd" /\ call'.outcome = "ok") =>
              files' = <<>> /\ directories' = <<>>
        /\ (call.op = "cwd" /\ call.outcome = "ok" /\ IsGetOfCwd) =>
              /\ call'.listed = 1
              /\ \A i \in 1..Len(call'.ret) :
                    IsRowOf(call'.ret[i], rcwd, PathCwd) ]_vars

\* the first call was cwd('s') and the second, get_files(''), fetched the
\* files of s
C7_Witness ==
    /\ calls = 2 /\ rcwd = "sub"
    /\ call.op = "get_files" /\ call.path = PathCwd
    /\ call.listed = 1 /\ call.ret # <<>>
    /\ \A i \in 1..Len(call.ret) : IsRowOf(call.ret[i], "sub", PathCwd)

(***************************************************************************)
(* C8.  get_files(path) and get_directories(path) with a non-empty path    *)
(* issue one LIST request, return only entries the server holds under that *)
(* path, and leave both cached lists as they were.                         *)
(***************************************************************************)
C8_ExplicitPathIsFresh ==
    [][ \A path \in ListPaths \ {PathCwd} :
          (IsCall("get_files", path) \/ IsCall("get_directories", path)) =>
             /\ call'.listed = 1
             /\ files' = files /\ directories' = directories
             /\ \A i \in 1..Len(call'.ret) :
                   IsRowOf(call'.ret[i], Resolve(path), path) ]_vars

\* get_files('s') returned the files of s while the cache held the files
\* of the current directory
C8_Witness ==
    /\ call.op = "get_files" /\ call.path = PathS
    /\ call.outcome = "ok" /\ call.listed = 1
    /\ call.ret # <<>> /\ files # <<>> /\ call.ret # files

(***************************************************************************)
(* C9.  As claimed: the constructor does not read the history file, the    *)
(* first download_files_in_directory reads it, and it is read for loading  *)
(* at most once in the life of the client.                                 *)
(***************************************************************************)
C9_LoadedOnlyOnce ==
    HistoryConfigured =>
        /\ calls = 0 => nLoad = 0
        /\ call.op = "download" => nLoad >= 1
        /\ nLoad <= 1

(***************************************************************************)
(* C9, amended.  With a history file configured the constructor does not   *)
(* read it, and a download_files_in_directory call reads it for loading    *)
(* exactly when the in-memory history is empty as the call starts; nothing *)
(* else reads it for loading.                                              *)
(***************************************************************************)
C9_LoadedWhileEmpty ==
    [][ HistoryConfigured =>
        /\ calls = 0 => nLoad = 0
        /\ \A path \in ListPaths :
              IsCall("download", path) =>
                 nLoad' = nLoad + (IF Len(downloaded_files.items) = 0
                                   THEN 1 ELSE 0)
        /\ nLoad' # nLoad => \E path \in ListPaths : IsCall("download", path)
      ]_vars

\* a later call read the history file again, and a call found the history
\* in memory and did not
C9_Witness ==
    /\ HistoryConfigured
    /\ call.op = "download" /\ calls = 3 /\ nLoad = 2
    /\ Len(downloaded_files.items) > 0

(***************************************************************************)
(* C10.  After every history append the history file holds exactly the     *)
(* records of the in-memory history, in the same order.                    *)
(***************************************************************************)
C10_FileEqualsMemoryAfterAppend ==
    [][ pc = "recording" =>
          FileItems(history_file') = downloaded_files'.items ]_vars

(***************************************************************************)
(* C11.  When the history file parses as a JSON list and an element of it  *)
(* violates the record shape (a field is missing or of the wrong type, or  *)
(* the element is not an object), the load of a download call is           *)
(* discarded: the in-memory history stays empty and the load raises no     *)
(* error to the caller, so the call goes on to its listing.                *)
(***************************************************************************)
ViolatesRecordShape(doc) ==
    doc.ty = "list" /\ \E i \in 1..Len(doc.items) : doc.items[i].k # "rec"

C11_BadShapeLoadDiscarded ==
    [][ \A path \in ListPaths :
          ( /\ IsCall("download", path)
            /\ nLoad' = nLoad + 1
            /\ history_file.st = "json"
            /\ ViolatesRecordShape(history_file.doc) )
          => /\ downloaded_files'.items = <<>>
             /\ call'.outcome = "raised" =>
                   (~FilesCached(path) /\ FreshListing(path).raised) ]_vars

(***************************************************************************)
(* C12.  With a history file that is missing or not parseable as JSON, the *)
(* load of a download call leaves the in-memory history empty and raises   *)
(* nothing to the caller, and the append after a successful transfer       *)
(* starts a new file holding just the new record, and the download goes    *)
(* on.                                                                     *)
(***************************************************************************)
C12_MissingOrCorruptTolerated ==
    [][ (HistoryConfigured /\ history_file.st \in {"missing", "corrupt"}) =>
        /\ \A path \in ListPaths :
              IsCall("download", path) =>
                 /\ nLoad' = nLoad + 1 => downloaded_files'.items = <<>>
                 /\ call'.outcome = "raised" =>
                       (~FilesCached(path) /\ FreshListing(path).raised)
        /\ pc = "recording" =>
              /\ history_file' = FileJson(JList(<< AsDict(cur) >>))
              /\ pc' = "iterating"
              /\ call'.outcome = "running" ]_vars

\* the load found an unparseable file and left the history empty, the
\* first transfer succeeded, and its record is about to be written
C12_Witness ==
    /\ history_file.st = "corrupt"
    /\ pc = "recording" /\ call.outcome = "running"
    /\ nLoad = 1 /\ downloaded_files.items = <<>>
    /\ Len(retrLog) = 1

(***************************************************************************)
(* C13.  Ledger round trip.  With a history file configured, when a new    *)
(* client makes its first download call (which loads the history file),    *)
(* every entry that an earlier client transferred, and so appended to the  *)
(* file, is in the in-memory history of the new client.                    *)
(***************************************************************************)
C13_FreshClientLoadsAppended ==
    [][ \A path \in ListPaths :
          ( /\ HistoryConfigured
            /\ call.op = "__init__" /\ calls > 0
            /\ IsCall("download", path) )
          => \A i \in 1..Len(retrLog) :
                retrLog[i].ok =>
                   \E j \in 1..Len(downloaded_files'.items) :
                      SameThreeFields(downloaded_files'.items[j],
                                      retrLog[i].file) ]_vars

(***************************************************************************)
(* C14.  With the size probe enabled, a listed entry whose SIZE request    *)
(* fails is classified as a directory whatever its name, an entry whose    *)
(* SIZE request succeeds is classified by its extension alone, and so      *)
(* every entry that is a directory without the probe is a directory with   *)
(* it: what get_files returns are the entries with an extension whose      *)
(* probe succeeded, and what get_directories returns includes every entry  *)
(* without extension.                                                      *)
(***************************************************************************)
C14_ProbeFailureMeansDirectory ==
    [][ \A path \in ListPaths :
          ( /\ request_check_is_dir
            /\ IsCall("get_files", path) \/ IsCall("get_directories", path)
            /\ call'.outcome = "ok" /\ call'.listed = 1 )
          => \A i \in 1..Len(get_file_infos(srv, rcwd, path).infos) :
                LET e == get_file_infos(srv, rcwd, path).infos[i]
                    asDirectory ==
                        \/ ServerSizeFails(srv, rcwd, e.name)
                        \/ splitext(e.name) = <<>>
                    returned == \E j \in 1..Len(call'.ret) : call'.ret[j] = e
                IN  returned <=> (asDirectory <=> call'.op = "get_directories")
      ]_vars

(***************************************************************************)
(* C15.  When the server rejects the login, the client closes the session  *)
(* and then the process terminates: a login that was not accepted always   *)
(* leaves the session closed and the process exited.                       *)
(***************************************************************************)
C15_RejectedLoginClosesThenExits ==
    [][ (IsCall("login", <<>>) /\ call'.outcome # "ok") =>
           (session' = "closed" /\ pc' = "exited") ]_vars

(***************************************************************************)
(* C16.  The download loop goes through the listing of its call in listing *)
(* order, one entry at a time: what is left to look at is always a suffix  *)
(* of the listing, the entry in transfer is the one just before that       *)
(* suffix, and while an entry is looked for, in transfer or being recorded *)
(* every earlier entry the user predicate accepts has its transfer         *)
(* completed and, with history configured, its record in memory and in the *)
(* file.  A RETR is issued only for the entry in transfer.                 *)
(***************************************************************************)
\* the file list the running download call iterates over
CallListing ==
    IF call.path = PathCwd THEN files ELSE FreshListing(call.path).lists.files

InFile(file_info) ==
    \E i \in 1..Len(FileItems(history_file)) :
        SameThreeFields(FileItems(history_file)[i], file_info)

Completed(file_info) ==
    IF HistoryConfigured THEN InLedger(file_info) /\ InFile(file_info)
    ELSE \E i \in 1..Len(retrLog) :
            retrLog[i].ok /\ retrLog[i].file = file_info

C16_OneAtATimeInListingOrder ==
    pc \in {"iterating", "downloading", "recording"} =>
        LET L == CallListing
            reached == Len(L) - Len(pending)
            earlier == IF pc = "iterating" THEN reached ELSE reached - 1
        IN  /\ reached >= 0
            /\ pending = SubSeq(L, reached + 1, Len(L))
            /\ pc # "iterating" => (reached >= 1 /\ cur = L[reached])
            /\ \A i \in 1..earlier : PassesCheck(L[i]) => Completed(L[i])
            /\ pc = "recording" =>
                  (retrLog # <<>> /\ Last(retrLog) = [file |-> cur, ok |-> TRUE])

\* the second file of the listing is in transfer right after the first was
\* transferred and recorded
C16_Witness ==
    /\ pc = "downloading"
    /\ Len(CallListing) >= 2 /\ cur = CallListing[2]
    /\ retrLog # <<>>
    /\ Last(retrLog) = [file |-> CallListing[1], ok |-> TRUE]
    /\ InLedger(CallListing[1]) /\ InFile(CallListing[1])

(***************************************************************************)
(* C17.  The history is append-only during the life of a client: every     *)
(* step keeps the records of the in-memory history as a prefix of the      *)
(* records it holds afterwards, and keeps the records of a parseable       *)
(* history file as a prefix of the records the file holds afterwards.      *)
(***************************************************************************)
IsPrefix(s, t) == Len(s) <= Len(t) /\ SubSeq(t, 1, Len(s)) = s

C17_AppendOnly ==
    [][ /\ IsPrefix(downloaded_files.items, downloaded_files'.items)
        /\ IsPrefix(FileItems(history_file), FileItems(history_file')) ]_vars

\* two records were loaded from the file and a third was appended after
\* them, in memory and in the file
C17_Witness ==
    /\ nLoad = 1 /\ Len(retrLog) = 1 /\ pc = "iterating"
    /\ Len(downloaded_files.items) = 3
    /\ FileItems(history_file) = downloaded_files.items
    /\ SameThreeFields(downloaded_files.items[3], retrLog[1].file)

(***************************************************************************)
(* C18.  When a LIST request is answered with a line of fewer than 6       *)
(* whitespace-separated tokens, or one whose 5th token is not an integer,  *)
(* the call that issued it raises: it returns no entry, both cached lists  *)
(* stay as they were, and no transfer is started.                          *)
(***************************************************************************)
\* the raw answer to LIST path holds a malformed line
HasMalformedLine(path) ==
    /\ Resolve(path) # "none"
    /\ \E i \in 1..Len(RawListing(srv, Resolve(path))) :
          LET toks == Split(RawListing(srv, Resolve(path))[i])
          IN  Len(toks) < 6 \/ ~IsIntToken(toks[5])

C18_MalformedLineFailsListing ==
    [][ \A path \in ListPaths :
          ( /\ \/ IsCall("get_files", path)
               \/ IsCall("get_directories", path)
               \/ IsCall("download", path)
            /\ call'.listed = 1
            /\ HasMalformedLine(path) )
          => /\ call'.outcome = "raised"
             /\ call'.ret = <<>>
             /\ files' = files /\ directories' = directories
             /\ pc' = "idle" /\ retrLog' = retrLog ]_vars

\* the cache holds the files of the current directory, and a download of
\* path s, whose listing has a malformed line, raised and transferred
\* nothing
C18_Witness ==
    /\ call.op = "download" /\ call.path = PathS
    /\ call.outcome = "raised" /\ call.listed = 1
    /\ HasMalformedLine(PathS)
    /\ files # <<>> /\ pc = "idle" /\ retrLog = <<>>

(***************************************************************************)
(* C19.  With the size probe disabled, a listing is classified by the      *)
(* names alone and without any SIZE request: get_files returns, in listing *)
(* order, exactly the listed entries whose name has an extension, and      *)
(* get_directories exactly those whose name has none, so every listed      *)
(* entry is in exactly one of the two, whatever the entry is on the        *)
(* server.                                                                 *)
(***************************************************************************)
\* the entries of s, in order, whose name has no extension (wantDir) or has
\* one (~wantDir)
RECURSIVE ByExtension(_, _)
ByExtension(s, wantDir) ==
    IF s = <<>> THEN <<>>
    ELSE IF (splitext(Head(s).name) = <<>>) = wantDir
         THEN << Head(s) >> \o ByExtension(Tail(s), wantDir)
         ELSE ByExtension(Tail(s), wantDir)

\* the parsed rows the server holds under path, in the server's order
ListedRows(path) ==
    [i \in 1..Len(Rows(srv, Resolve(path))) |->
        FTPFile(join_os_path(path, Rows(srv, Resolve(path))[i].name),
                IntOfToken(Rows(srv, Resolve(path))[i].size),
                JoinSpace(Rows(srv, Resolve(path))[i].date))]

C19_NameAloneWithoutProbe ==
    [][ \A path \in ListPaths :
          ( /\ ~request_check_is_dir
            /\ IsCall("get_files", path) \/ IsCall("get_directories", path)
            /\ call'.outcome = "ok" /\ call'.listed = 1 )
          => /\ sizeRequests' = 0
             /\ call'.ret = ByExtension(ListedRows(path),
                                        call'.op = "get_directories")
             /\ path = PathCwd =>
                   /\ files' = ByExtension(ListedRows(path), FALSE)
                   /\ directories' = ByExtension(ListedRows(path), TRUE)
                   /\ Len(files') + Len(directories') = Len(ListedRows(path))
      ]_vars

\* without the probe, the plain file b of directory s, which has no
\* extension, was returned as a directory next to no other
C19_Witness ==
    /\ ~request_check_is_dir
    /\ call.op = "get_directories" /\ call.outcome = "ok" /\ call.listed = 1
    /\ sizeRequests = 0
    /\ \E i \in 1..Len(call.ret) :
          /\ splitext(call.ret[i].name) = <<>>
          /\ ~ServerSizeFails(srv, rcwd, call.ret[i].name)

(***************************************************************************)
(* C20.  The list a get_files or get_directories call returned keeps, in   *)
(* the caller's hands, the contents it had when it was returned, whatever  *)
(* is done with the client afterwards.                                     *)
(***************************************************************************)
C20_ReturnedListIsStable == held.val = held.snap

====
